---------------------------- MODULE Spec2Model ----------------------------
(***************************************************************************)
(* Model of the file scanner: DirectoryScanner (directory_scanner.py),     *)
(* RabbitMQClient (rabbitmq_client.py) and the broker connections the      *)
(* client opens, and FileScannerApp (file_scanner.py), which runs a scan   *)
(* whose callback publishes one message per file.                          *)
(*                                                                         *)
(* Every public method is one action.  A method body is an operator from   *)
(* the state before the call to the SET of possible results                *)
(* [w |-> state after, ret |-> returned value or raised error]: one        *)
(* result per outcome the broker or the filesystem can produce at each     *)
(* library call the body makes.                                            *)
(***************************************************************************)
EXTENDS Integers, Sequences, FiniteSets, TLC

\* ---------------------------------------------------------------- bounds
\* Connection objects that can exist at once (closed, unreferenced ones are
\* collected and their identity reused).
MaxConns == 2
\* Largest max_retries a client is constructed with.
MaxRetries == 2
\* Largest heartbeat_check_interval a client is constructed with.
MaxInterval == 2
\* publish() calls after which the driver stops publishing.
MaxMessages == 2
\* Directories of the tree under a root: directory d holds the
\* subdirectories 2d and 2d+1 that are at most MaxDirs.
MaxDirs == 3
\* Most file entries one directory holds.
MaxFiles == 2
\* Files are smaller than (MaxPB + 1) * 1024^5 bytes.  Up to 2^53 a size is
\* the same number as an int and as a float.
MaxPB == 3

None == 0
ConnIds == 1..MaxConns

VARIABLES
    \* RabbitMQClient fields (rabbitmq_client.py:40-53)
    connection,                \* self.connection: None or a connection object
    channel,                   \* self.channel: None or the channel made on that connection
    message_count,             \* self._message_count
    max_retries,               \* self.max_retries
    heartbeat_check_interval,  \* self.heartbeat_check_interval
    \* the broker side of the objects the client created
    conn,                      \* connection object -> "none" | "open" | "closed"
    chan,                      \* its channel       -> "none" | "open" | "closed"
    setup,                     \* its channel       -> setup calls completed, in order
    queue,                     \* the target queue: "absent" | "durable" | "inequivalent"
    \* observation of the last public call
    opens,                     \* BlockingConnection(...) calls made by the last call
    trace,                     \* what the last call did: connect() calls and returns,
                               \* connections opened, publishes, liveness checks, closes
    last,                      \* [op, ret, pre]: the call, its result, is_connected() before
    \* DirectoryScanner fields (directory_scanner.py:21-27)
    progress_interval,         \* self.progress_interval
    files_processed,           \* self._files_processed
    files_failed,              \* self._files_failed
    files_skipped,             \* self._files_skipped
    \* the scan() call in progress (directory_scanner.py:29-78)
    scan_pc,                   \* "idle" | "walk"
    root_kind,                 \* what root_path is: "missing" | "file" | "dir"
    file_extensions,           \* the filter argument, <<>> for None or []
    pending,                   \* os.walk: directories still to be yielded, next first
    dirpath,                   \* os.walk: the directory yielded last, 0 between two
    filenames,                 \* its file entries not handled yet (their suffixes)
    scan_ret,                  \* how the last scan() ended, "running" during one
    \* observation of the scan() call
    handed,                    \* entries passed to _process_entry
    invoked,                   \* file_callback invocations
    callback_result,           \* what the last entry's callback did, "none" if not invoked
    yielded,                   \* directories os.walk enumerated
    stale,                     \* some counter was not zero when scan() was called
    notified,                  \* the last entry logged a progress line
    pruned,                    \* directories whose probe failed in this scan
    \* the FileScannerApp.run() call in progress (file_scanner.py:35-70)
    app_pc,                    \* "idle" | "connected" | "scanning" | "exited"
    app_ret,                   \* how run() ended, "running" before
    app_connect,               \* what its connect() did, "none" before
    \* observation of the run() call
    disconnects,               \* disconnect() calls
    scans,                     \* scan() calls
    extracted,                 \* extract() of the last entry: "record" | "None" | "none"
    published,                 \* publish() of the last entry, "none" if not called
    attempts,                  \* messages of the basic_publish calls for the last entry
    publish_true,              \* publish() calls that returned True
    callback_failures,         \* absent records and publish() calls that failed
    files_confirmed,           \* files with a message the broker confirmed
    summary,                   \* the statistics run() logged after scan(), <<>> if none
    \* FileInfoExtractor fields (file_info_extractor.py:23-24)
    calculate_hash,            \* self.calculate_hash
    max_hash_size,             \* self.max_hash_size
    \* the last extract() call
    file,                      \* the file it was given: what stat() does, its size,
                               \* whether its content can be read
    record,                    \* what it returned, ret = "none" between two calls
    opened                     \* it opened the file to read its content

pubVars == <<connection, channel, message_count, max_retries,
             heartbeat_check_interval, conn, chan, setup, queue, opens, trace, last>>
pubConfig == <<max_retries, heartbeat_check_interval>>
scanVars == <<progress_interval, files_processed, files_failed, files_skipped,
              scan_pc, root_kind, file_extensions, pending, dirpath, filenames,
              scan_ret, handed, invoked, callback_result, yielded, stale,
              notified, pruned>>
appVars == <<app_pc, app_ret, app_connect, disconnects, scans, extracted,
             published, attempts, publish_true, callback_failures, files_confirmed,
             summary>>
extVars == <<calculate_hash, max_hash_size, file, record, opened>>
vars == <<pubVars, scanVars, appVars, extVars>>

\* The library calls a trace can hold.
Ops == {"connect", "basic_publish", "process_data_events", "close"}

\* The state a method body works on; observed are the calls its trace is to
\* hold.
World ==
    [connection |-> connection, channel |-> channel,
     message_count |-> message_count, conn |-> conn, chan |-> chan,
     setup |-> setup, queue |-> queue, opens |-> 0, trace |-> <<>>,
     observed |-> Ops]

\* A connection object that is closed and that the client no longer
\* references is gone: its identity is free again.  So is a channel object
\* the client no longer references.
Collected(w, c) ==
    /\ w.conn[c] # "open"
    /\ w.connection # c
    /\ w.channel # c

Collect(w) ==
    [w EXCEPT
       !.conn = [c \in ConnIds |-> IF Collected(w, c) THEN "none" ELSE w.conn[c]],
       !.chan = [c \in ConnIds |-> IF w.channel # c THEN "none" ELSE w.chan[c]],
       !.setup = [c \in ConnIds |-> IF w.channel # c THEN <<>> ELSE w.setup[c]]]

SetWorld(w) ==
    /\ connection' = w.connection
    /\ channel' = w.channel
    /\ message_count' = w.message_count
    /\ conn' = Collect(w).conn
    /\ chan' = Collect(w).chan
    /\ setup' = Collect(w).setup
    /\ queue' = w.queue
    /\ opens' = w.opens
    /\ trace' = w.trace

\* ------------------------------------------------------- RabbitMQClient
\* is_connected(): connection is not None, not closed, and channel is not None.
IsConnected(w) ==
    /\ w.connection # None
    /\ w.conn[w.connection] # "closed"
    /\ w.channel # None

\* One entry of the trace: the call, its outcome, a number (the message of a
\* basic_publish, the attempts made by a connect()), is_connected() right after.
Log(w, op, out, n) ==
    IF op \in w.observed
    THEN [w EXCEPT !.trace = Append(@, [op |-> op, out |-> out, n |-> n,
                                        live |-> IsConnected(w)])]
    ELSE w

\* One more BlockingConnection(...) call, counted with the connect() calls.
Counted(w) ==
    IF "connect" \in w.observed THEN [w EXCEPT !.opens = @ + 1] ELSE w

\* Identities a new connection object can take: never one the client still
\* references, never one that is still open.
FreeIds(w) == {c \in ConnIds : Collected(w, c)}

\* A connection-level error on an established connection: the stream is
\* lost, the connection and its channel are closed (pika StreamLostError,
\* ConnectionClosed).
LoseConnection(w, c) ==
    [w EXCEPT !.conn[c] = "closed",
              !.chan[c] = IF @ = "open" THEN "closed" ELSE @]

\* pika.BlockingConnection(parameters); self.connection = ...   (line 81)
OpenConnection(w) ==
    {[w |-> Counted(w), out |-> "conn_err"]}
    \cup
    (IF FreeIds(w) = {} THEN {}
     ELSE LET c == CHOOSE x \in FreeIds(w) : \A y \in FreeIds(w) : x <= y
              w1 == [w EXCEPT !.conn[c] = "open", !.chan[c] = "none",
                              !.setup[c] = <<>>, !.connection = c]
          IN {[w |-> Counted(w1), out |-> "ok"]})

\* self.channel = self.connection.channel()   (line 82)
OpenChannel(w) ==
    LET c == w.connection
    IN {[w |-> LoseConnection(w, c), out |-> "conn_err"],
        [w |-> [w EXCEPT !.chan[c] = "open", !.channel = c], out |-> "ok"]}

\* self.channel.queue_declare(queue=self.queue_name, durable=True)   (line 85)
\* Declaring an existing durable queue again succeeds; a queue that exists
\* with other arguments makes the broker close the channel
\* (PRECONDITION_FAILED, an AMQPChannelError) and leaves the connection open.
QueueDeclare(w) ==
    LET c == w.channel
    IN {[w |-> LoseConnection(w, c), out |-> "conn_err"]}
       \cup
       (IF w.queue = "inequivalent"
        THEN {[w |-> [w EXCEPT !.chan[c] = "closed"], out |-> "chan_err"]}
        ELSE {[w |-> [w EXCEPT !.queue = "durable",
                               !.setup[c] = Append(@, "queue_declare")],
               out |-> "ok"]})

\* Mutant: confirm_delivery() is never called.
ConfirmDeliveryOmitted(w) == {[w |-> w, out |-> "ok"]}

\* self.channel.confirm_delivery()   (line 88)
ConfirmDelivery(w) ==
    LET c == w.channel
    IN {[w |-> LoseConnection(w, c), out |-> "conn_err"],
        [w |-> [w EXCEPT !.setup[c] = Append(@, "confirm_delivery")], out |-> "ok"]}

\* The try block of one connection attempt (lines 63-91); out is "ok" or the
\* class of the error raised.
\* A statement is run on every result of the one before that went well; a
\* result that raised leaves the block.
Attempt(w) ==
    LET connected == OpenConnection(w)
        channelled == UNION {IF r.out = "ok" THEN OpenChannel(r.w) ELSE {r}
                             : r \in connected}
        declared == UNION {IF r.out = "ok" THEN QueueDeclare(r.w) ELSE {r}
                           : r \in channelled}
        confirmed == UNION {IF r.out = "ok" THEN ConfirmDelivery(r.w) ELSE {r}
                            : r \in declared}
    IN {[w |-> Collect(r.w), out |-> r.out] : r \in confirmed}

\* Mutant: range(0, self.max_retries + 1), one attempt too many.
RetriesExhaustedOneLate(attempt) == attempt > max_retries

\* for attempt in range(0, self.max_retries)   (line 62)
RetriesExhausted(attempt) == attempt >= max_retries

\* connect(): the retry loop, from each of the states ws that attempt
\* number `attempt` can start in.  AMQPConnectionError is caught and the loop
\* goes on (lines 93-97; `attempt == self.max_retries` is never true inside
\* the loop); any other error leaves connect() as raised.
RECURSIVE ConnectLoop(_, _)
ConnectLoop(ws, attempt) ==
    IF ws = {} THEN {}
    ELSE IF RetriesExhausted(attempt)
    THEN {[w |-> Log(w, "connect", "False", attempt), ret |-> "False"] : w \in ws}
    ELSE LET tried == UNION {Attempt(w) : w \in ws}
             failed == {a.w : a \in {x \in tried : x.out = "conn_err"}}
         IN {[w |-> Log(a.w, "connect", "True", attempt + 1), ret |-> "True"]
               : a \in {x \in tried : x.out = "ok"}}
            \cup
            {[w |-> Log(a.w, "connect", "raise", attempt + 1),
              ret |-> "AMQPChannelError"]
               : a \in {x \in tried : x.out \notin {"ok", "conn_err"}}}
            \cup
            ConnectLoop(failed, attempt + 1)

Connect(w) == ConnectLoop({Log(w, "connect", "call", 0)}, 0)

\* self.connection.close()   (line 105): closes the connection and its
\* channel; a close that raises has lost the stream, the connection is
\* closed all the same.
CloseConnection(w) ==
    LET c == w.connection
    IN {[w |-> Log(LoseConnection(w, c), "close", "ok", 0), out |-> "ok"],
        [w |-> Log(LoseConnection(w, c), "close", "error", 0), out |-> "error"]}

\* Mutant: disconnect() that does not close the connection.
DisconnectWithoutClose(w) == {[w |-> w, ret |-> "None"]}

\* disconnect()   (lines 101-108): every Exception of close() is swallowed.
Disconnect(w) ==
    IF w.connection # None /\ w.conn[w.connection] # "closed"
    THEN {[w |-> r.w, ret |-> "None"] : r \in CloseConnection(w)}
    ELSE {[w |-> w, ret |-> "None"]}


\* self.channel.basic_publish(..., mandatory=True)   (lines 138-147, 163-172)
\* A channel that is not open refuses the call (ChannelWrongStateError, an
\* AMQPChannelError).  On a channel in confirm mode the call returns once the
\* broker has confirmed the message, and an unroutable or refused message is
\* reported; on any other channel it returns without the broker's answer.
BasicPublish(w, m) ==
    LET c == w.channel
        confirms == \E i \in 1..Len(w.setup[c]) : w.setup[c][i] = "confirm_delivery"
    IN IF w.chan[c] # "open"
       THEN {[w |-> Log(w, "basic_publish", "chan_err", m), out |-> "chan_err"]}
       ELSE {[w |-> Log(w, "basic_publish", IF confirms THEN "ok" ELSE "unconfirmed", m),
              out |-> "ok"],
             [w |-> Log(LoseConnection(w, c), "basic_publish", "conn_err", m),
              out |-> "conn_err"],
             [w |-> Log([w EXCEPT !.chan[c] = "closed"], "basic_publish", "chan_err", m),
              out |-> "chan_err"]}
            \cup
            (IF confirms
             THEN {[w |-> Log(w, "basic_publish", "unroutable", m), out |-> "unroutable"],
                   [w |-> Log(w, "basic_publish", "other", m), out |-> "other"]}
             ELSE {})

\* self.connection.process_data_events(time_limit=0)   (line 192)
ProcessDataEvents(w) ==
    LET c == w.connection
    IN {[w |-> Log(w, "process_data_events", "ok", 0), out |-> "ok"],
        [w |-> Log(LoseConnection(w, c), "process_data_events", "conn_err", 0),
         out |-> "conn_err"]}

\* The except handler of _ensure_connection_alive (lines 196-198): connect()
\* again, its result ignored, an error it raises not caught.
ReconnectAfterCheckFailed(w) ==
    {[w |-> r.w, ret |-> IF r.ret \in {"True", "False"} THEN "None" ELSE r.ret]
       : r \in Connect(w)}

\* _ensure_connection_alive()   (lines 184-198)
EnsureConnectionAlive(w) ==
    IF w.connection # None /\ w.conn[w.connection] # "closed"
    THEN UNION {IF p.out = "ok" THEN {[w |-> p.w, ret |-> "None"]}
                ELSE ReconnectAfterCheckFailed(p.w)
                : p \in ProcessDataEvents(w)}
    ELSE UNION {IF r.ret \in {"True", "False"} THEN {[w |-> r.w, ret |-> "None"]}
                ELSE ReconnectAfterCheckFailed(r.w)
                : r \in Connect(w)}

\* Mutant: the retry counts as published whatever basic_publish did.
RetryPublishUnchecked(w, m) ==
    {[w |-> p.w, ret |-> "True"] : p \in BasicPublish(w, m)}

\* The retry of lines 161-176: one basic_publish, every Exception is a False.
RetryPublish(w, m) ==
    {[w |-> p.w, ret |-> IF p.out = "ok" THEN "True" ELSE "False"]
       : p \in BasicPublish(w, m)}

\* Mutant: the retry sends the message before m.
ReconnectAndRetryPrevious(w, m) ==
    UNION {CASE r.ret = "True" -> RetryPublish(r.w, m - 1)
             [] r.ret = "False" -> {[w |-> r.w, ret |-> "False"]}
             [] OTHER -> {r}
           : r \in Connect(w)}

\* The handler of lines 154-178: connect(), then the retry if it returned True.
\* An error raised by connect() here is raised inside an except block and is
\* not caught by the `except Exception` of line 180.
ReconnectAndRetry(w, m) ==
    UNION {CASE r.ret = "True" -> RetryPublish(r.w, m)
             [] r.ret = "False" -> {[w |-> r.w, ret |-> "False"]}
             [] OTHER -> {r}
           : r \in Connect(w)}

\* Mutant: UnroutableError is handled like a connection error.
PublishBodyUnroutableReconnects(w, m) ==
    UNION {CASE p.out = "ok" -> {[w |-> p.w, ret |-> "True"]}
             [] p.out \in {"conn_err", "chan_err", "unroutable"} ->
                  ReconnectAndRetry(p.w, m)
             [] OTHER -> {[w |-> p.w, ret |-> "False"]}
           : p \in BasicPublish(w, m)}

\* The try block of publish (lines 133-182).
PublishBody(w, m) ==
    UNION {CASE p.out = "ok" -> {[w |-> p.w, ret |-> "True"]}
             [] p.out \in {"conn_err", "chan_err"} -> ReconnectAndRetry(p.w, m)
             [] OTHER -> {[w |-> p.w, ret |-> "False"]}
           : p \in BasicPublish(w, m)}

\* if not self.channel   (line 121)
CannotPublish(w) == w.channel = None

\* Mutant: the interval is tested on the counter before its increment.
PublishChecksBeforeIncrement(w, m) ==
    IF CannotPublish(w)
    THEN {[w |-> w, ret |-> "False"]}
    ELSE LET w1 == [w EXCEPT !.message_count = @ + 1]
             checked == IF w.message_count % heartbeat_check_interval = 0
                        THEN EnsureConnectionAlive(w1)
                        ELSE {[w |-> w1, ret |-> "None"]}
         IN UNION {IF h.ret = "None" THEN PublishBody(h.w, m) ELSE {h}
                   : h \in checked}

\* publish(message)   (lines 110-182)
Publish(w, m) ==
    IF CannotPublish(w)
    THEN {[w |-> w, ret |-> "False"]}
    ELSE LET w1 == [w EXCEPT !.message_count = @ + 1]
             checked == IF w1.message_count % heartbeat_check_interval = 0
                        THEN EnsureConnectionAlive(w1)
                        ELSE {[w |-> w1, ret |-> "None"]}
         IN UNION {IF h.ret = "None" THEN PublishBody(h.w, m) ELSE {h}
                   : h \in checked}


\* ----------------------------------------------------- DirectoryScanner
\* Text is a sequence of characters.
Dot == "."
LowerChar(ch) ==
    CASE ch = "T" -> "t"
      [] ch = "X" -> "x"
      [] ch = "J" -> "j"
      [] ch = "P" -> "p"
      [] ch = "G" -> "g"
      [] OTHER -> ch

\* str.lower()
Lower(str) == [i \in 1..Len(str) |-> LowerChar(str[i])]

\* ext if ext.startswith('.') else f'.{ext}'   (line 117)
NormalizeExtension(ext) ==
    IF Len(ext) > 0 /\ ext[1] = Dot THEN ext ELSE <<Dot>> \o ext

\* normalized_extensions   (lines 116-119)
NormalizedExtensions(exts) ==
    {NormalizeExtension(exts[i]) : i \in 1..Len(exts)}

\* Mutant: the test is made also when there is no filter.
FilteredWhenEmpty(suffix, exts) ==
    Lower(suffix) \notin NormalizedExtensions(exts)

\* if file_extensions: ... entry.suffix.lower() not in normalized_extensions
\* (lines 114-121): the entry is rejected by the filter.
Filtered(suffix, exts) ==
    /\ Len(exts) > 0
    /\ Lower(suffix) \notin NormalizedExtensions(exts)

Txt == <<Dot, "t", "x", "t">>
Jpg == <<Dot, "j", "p", "g">>

\* The suffixes an entry can have and the filters a scan can be given.
Suffixes == {<<Dot, "t", "x", "t">>, <<Dot, "T", "X", "T">>, <<Dot, "j", "p", "g">>}
Filters == {<<>>,
            << <<Dot, "t", "x", "t">> >>,
            << <<"t", "x", "t">> >>,
            << <<Dot, "T", "X", "T">> >>,
            << <<"T", "X", "T">> >>}

RECURSIVE SeqsUpTo(_, _)
SeqsUpTo(S, n) ==
    IF n = 0 THEN {<<>>}
    ELSE LET shorter == SeqsUpTo(S, n - 1)
         IN shorter \cup {Append(q, x) : q \in shorter, x \in S}

\* The tree under a root.
Root == 1
Dirs == 1..MaxDirs
Children(d) == SelectSeq(<<2 * d, 2 * d + 1>>, LAMBDA c : c \in Dirs)

\* Mutant: the is_dir() check is missing.
ValidateRootExistsOnly(kind) ==
    IF kind = "missing" THEN "FileNotFoundError" ELSE "ok"

\* root.exists() / root.is_dir()   (lines 47-53)
ValidateRoot(kind) ==
    CASE kind = "missing" -> "FileNotFoundError"
      [] kind = "file" -> "NotADirectoryError"
      [] OTHER -> "ok"

\* The statistics of a scanner.
Stats == [processed |-> files_processed, failed |-> files_failed,
          skipped |-> files_skipped]

\* Mutant: the statistics are not reset.
ResetStatisticsKept(st) == st

\* Reset statistics   (lines 55-58)
ResetStatistics(st) == [processed |-> 0, failed |-> 0, skipped |-> 0]

\* Mutant: PermissionError is handled like any other Exception.
AfterCallbackNoPermissionCase(st, result) ==
    CASE result = "True" -> [st EXCEPT !.processed = @ + 1]
      [] result \in {"False", "PermissionError", "Exception"} ->
           [st EXCEPT !.failed = @ + 1]
      [] OTHER -> st

\* What file_callback(entry) does to the statistics (lines 127-147): a
\* result counts as processed or failed, PermissionError as skipped, any
\* other Exception as failed.
AfterCallback(st, result) ==
    CASE result = "True" -> [st EXCEPT !.processed = @ + 1]
      [] result = "False" -> [st EXCEPT !.failed = @ + 1]
      [] result = "PermissionError" -> [st EXCEPT !.skipped = @ + 1]
      [] result = "Exception" -> [st EXCEPT !.failed = @ + 1]
      [] OTHER -> st

\* if self._files_processed % self.progress_interval == 0   (line 135)
ProgressDue(st) == st.processed % progress_interval = 0

\* The progress line of lines 135-140 is reached when the callback returned,
\* with the counters as they are after lines 129-132; a callback that raised
\* has left the try block before.
Notifies(st, result) ==
    /\ result \in {"True", "False"}
    /\ ProgressDue(AfterCallback(st, result))

\* Mutant: no subdirectory is removed from dirnames.
AccessibleAll(dirnames, accessible) == dirnames

\* [d for d in dirnames if self._can_access_dir(Path(dirpath) / d)]   (line 74)
Accessible(dirnames, accessible) ==
    SelectSeq(dirnames, LAMBDA d : d \in accessible)

\* An entry the filter rejects   (lines 121-124)
AfterFiltered(st) == [st EXCEPT !.skipped = @ + 1]

\* Mutant: _process_entry lets the errors of the callback through.
EscapesEveryError(result) ==
    result \in {"KeyboardInterrupt", "PermissionError", "Exception"}

\* KeyboardInterrupt is no Exception: neither _process_entry (line 145) nor
\* scan (line 76) catches it.
Escapes(result) == result = "KeyboardInterrupt"

\* What a callback handed to scan() can do.
CallbackResults == {"True", "False", "PermissionError", "Exception", "KeyboardInterrupt"}

SetStats(st) ==
    /\ files_processed' = st.processed
    /\ files_failed' = st.failed
    /\ files_skipped' = st.skipped

\* Mutant: the statistics are reset before the root is validated.
ScanCallResetsFirst ==
    /\ scan_pc = "idle"
    /\ \E kind \in {"missing", "file", "dir"}, exts \in Filters :
         /\ root_kind' = kind
         /\ file_extensions' = exts
         /\ SetStats(ResetStatistics(Stats))
         /\ IF ValidateRoot(kind) # "ok"
            THEN /\ scan_ret' = ValidateRoot(kind)
                 /\ UNCHANGED scan_pc
                 /\ pending' = <<>>
            ELSE /\ scan_ret' = "running"
                 /\ scan_pc' = "walk"
                 /\ pending' = <<Root>>
    /\ stale' = (files_processed + files_failed + files_skipped > 0)
    /\ dirpath' = 0
    /\ filenames' = <<>>
    /\ handed' = 0
    /\ invoked' = 0
    /\ callback_result' = "none"
    /\ yielded' = 0
    /\ notified' = FALSE
    /\ pruned' = {}
    /\ UNCHANGED <<pubVars, progress_interval>>

\* scan(root_path, file_callback, file_extensions) up to the first directory
\* (lines 44-67): validation, reset, start of os.walk.
ScanCall ==
    /\ scan_pc = "idle"
    /\ \E kind \in {"missing", "file", "dir"}, exts \in Filters :
         /\ root_kind' = kind
         /\ file_extensions' = exts
         /\ IF ValidateRoot(kind) # "ok"
            THEN /\ scan_ret' = ValidateRoot(kind)
                 /\ UNCHANGED <<scan_pc, files_processed, files_failed, files_skipped>>
                 /\ pending' = <<>>
            ELSE /\ scan_ret' = "running"
                 /\ scan_pc' = "walk"
                 /\ SetStats(ResetStatistics(Stats))
                 /\ pending' = <<Root>>
    /\ stale' = (files_processed + files_failed + files_skipped > 0)
    /\ dirpath' = 0
    /\ filenames' = <<>>
    /\ handed' = 0
    /\ invoked' = 0
    /\ callback_result' = "none"
    /\ yielded' = 0
    /\ notified' = FALSE
    /\ pruned' = {}
    /\ UNCHANGED <<pubVars, progress_interval>>

\* for dirpath, dirnames, filenames in os.walk(root_path)   (line 67): the
\* next directory is enumerated.  A root that is no directory yields nothing.
WalkYield ==
    /\ scan_pc = "walk"
    /\ dirpath = 0
    /\ pending # <<>>
    /\ IF root_kind = "dir"
       THEN /\ dirpath' = Head(pending)
            /\ \E names \in SeqsUpTo(Suffixes, MaxFiles) : filenames' = names
            /\ yielded' = yielded + 1
       ELSE UNCHANGED <<dirpath, filenames, yielded>>
    /\ pending' = Tail(pending)
    /\ UNCHANGED <<pubVars, progress_interval, files_processed, files_failed,
                   files_skipped, scan_pc, root_kind, file_extensions, scan_ret,
                   handed, invoked, callback_result, stale, notified, pruned>>

\* An unexpected error of the enumeration itself (lines 76-78): scan() raises.
WalkError ==
    /\ scan_pc = "walk"
    /\ dirpath = 0
    /\ pending # <<>>
    /\ scan_pc' = "idle"
    /\ scan_ret' = "Exception"
    /\ pending' = <<>>
    /\ UNCHANGED <<pubVars, progress_interval, files_processed, files_failed,
                   files_skipped, root_kind, file_extensions, dirpath, filenames,
                   handed, invoked, callback_result, yielded, stale, notified,
                   pruned>>

\* _process_entry on an entry the filter rejects (lines 121-124).
EntryFiltered ==
    /\ SetStats(AfterFiltered(Stats))
    /\ filenames' = Tail(filenames)
    /\ callback_result' = "none"
    /\ notified' = FALSE
    /\ UNCHANGED <<invoked, scan_pc, scan_ret, pending, dirpath>>

\* _process_entry from the callback on (lines 127-147), the callback having
\* returned or raised result.
CallbackDone(result) ==
    /\ invoked' = invoked + 1
    /\ callback_result' = result
    /\ SetStats(AfterCallback(Stats, result))
    /\ notified' = Notifies(Stats, result)
    /\ IF Escapes(result)
       THEN /\ scan_pc' = "idle"
            /\ scan_ret' = result
            /\ pending' = <<>>
            /\ dirpath' = 0
            /\ filenames' = <<>>
       ELSE /\ filenames' = Tail(filenames)
            /\ UNCHANGED <<scan_pc, scan_ret, pending, dirpath>>

\* self._process_entry(file_path, file_callback, file_extensions)
\* (lines 69-71, 98-147) for the next file of the directory.
ProcessEntry ==
    /\ scan_pc = "walk"
    /\ dirpath # 0
    /\ filenames # <<>>
    /\ handed' = handed + 1
    /\ IF Filtered(Head(filenames), file_extensions)
       THEN EntryFiltered
       ELSE \E result \in CallbackResults : CallbackDone(result)
    /\ UNCHANGED <<pubVars, progress_interval, root_kind, file_extensions,
                   yielded, stale, pruned>>

\* dirnames[:] = [d for d in dirnames if self._can_access_dir(...)]   (line 74,
\* lines 80-96): the subdirectories whose probe fails are not walked.
PruneDirs ==
    /\ scan_pc = "walk"
    /\ dirpath # 0
    /\ filenames = <<>>
    /\ LET dirnames == {Children(dirpath)[i] : i \in 1..Len(Children(dirpath))}
       IN \E accessible \in SUBSET dirnames :
            /\ pending' = Accessible(Children(dirpath), accessible) \o pending
            /\ pruned' = pruned \cup (dirnames \ accessible)
    /\ dirpath' = 0
    /\ UNCHANGED <<pubVars, progress_interval, files_processed, files_failed,
                   files_skipped, scan_pc, root_kind, file_extensions, filenames,
                   scan_ret, handed, invoked, callback_result, yielded, stale,
                   notified>>

\* os.walk is exhausted: scan() returns.
ScanReturn ==
    /\ scan_pc = "walk"
    /\ dirpath = 0
    /\ pending = <<>>
    /\ scan_pc' = "idle"
    /\ scan_ret' = "None"
    /\ UNCHANGED <<pubVars, progress_interval, files_processed, files_failed,
                   files_skipped, root_kind, file_extensions, pending, dirpath,
                   filenames, handed, invoked, callback_result, yielded, stale,
                   notified, pruned>>

InitRun ==
    /\ app_pc = "idle"
    /\ app_ret = "running"
    /\ app_connect = "none"
    /\ disconnects = 0
    /\ scans = 0
    /\ extracted = "none"
    /\ published = "none"
    /\ attempts = <<>>
    /\ publish_true = 0
    /\ callback_failures = 0
    /\ files_confirmed = 0
    /\ summary = <<>>

\* A scanner just constructed, with the least or the largest progress_interval.
InitScanner ==
    /\ progress_interval \in {1, MaxInterval}
    /\ files_processed = 0
    /\ files_failed = 0
    /\ files_skipped = 0
    /\ scan_pc = "idle"
    /\ root_kind = "dir"
    /\ file_extensions = <<>>
    /\ pending = <<>>
    /\ dirpath = 0
    /\ filenames = <<>>
    /\ scan_ret = "None"
    /\ handed = 0
    /\ invoked = 0
    /\ callback_result = "none"
    /\ yielded = 0
    /\ stale = FALSE
    /\ notified = FALSE
    /\ pruned = {}

\* ----------------------------------------------------- FileInfoExtractor
\* A size in bytes is written in base 1024, lowest digit first, one digit
\* for each of B, KB, MB, GB, TB and PB.
Units == <<"B", "KB", "MB", "GB", "TB">>
NDigits == Len(Units) + 1
Size(digits) == [i \in 1..NDigits |-> IF i <= Len(digits) THEN digits[i] ELSE 0]
Zero == Size(<<>>)

\* a <= b on sizes, decided by the highest digit in which they differ.
RECURSIVE LessEqFrom(_, _, _)
LessEqFrom(a, b, i) ==
    IF i = 0 THEN TRUE
    ELSE IF a[i] # b[i] THEN a[i] < b[i]
    ELSE LessEqFrom(a, b, i - 1)

LessEq(a, b) == LessEqFrom(a, b, NDigits)

\* Mutant: size_bytes <= 1024.0.
BelowNextInclusive(size, k) ==
    \/ \A j \in (k + 2)..NDigits : size[j] = 0
    \/ /\ size[k + 2] = 1
       /\ \A j \in 1..NDigits : j # k + 2 => size[j] = 0

\* size_bytes < 1024.0 after k divisions by 1024.0   (line 98)
BelowNext(size, k) == \A j \in (k + 2)..NDigits : size[j] = 0

\* The digits of a fraction (lowest first, from digit i on) times 100: the
\* whole part of the product and the fraction that is left.
RECURSIVE Times100(_, _, _)
Times100(frac, i, carry) ==
    IF i > Len(frac) THEN [whole |-> carry, rest |-> <<>>]
    ELSE LET t == frac[i] * 100 + carry
             r == Times100(frac, i + 1, t \div 1024)
         IN [whole |-> r.whole, rest |-> <<t % 1024>> \o r.rest]

\* f"{size_bytes:.2f}" after k divisions by 1024.0 (lines 99-100), in
\* hundredths: the value is size / 1024^k exactly, and the format rounds it
\* to the nearest hundredth, to the even one when it lies half way.
Hundredths(size, k) ==
    LET p == Times100(SubSeq(size, 1, k), 1, 0)
        n == Len(p.rest)
        lower == \E i \in 1..(n - 1) : p.rest[i] # 0
        up == /\ n > 0
              /\ \/ p.rest[n] > 512
                 \/ p.rest[n] = 512 /\ (lower \/ p.whole % 2 = 1)
    IN size[k + 1] * 100 + p.whole + (IF up THEN 1 ELSE 0)

\* The loop of _format_size (lines 97-102), k units having been passed.
RECURSIVE FormatLoop(_, _)
FormatLoop(size, k) ==
    IF k = Len(Units)
    THEN [hundredths |-> Hundredths(size, k), unit |-> "PB"]
    ELSE IF BelowNext(size, k)
    THEN [hundredths |-> Hundredths(size, k), unit |-> Units[k + 1]]
    ELSE FormatLoop(size, k + 1)

\* _format_size(size_bytes)   (lines 87-102)
FormatSize(size) == FormatLoop(size, 0)

\* Mutant: st_size < max_hash_size.
HashDueExclusive(size) ==
    calculate_hash /\ LessEq(size, max_hash_size) /\ size # max_hash_size

\* if self.calculate_hash and stat_info.st_size <= self.max_hash_size   (line 54)
HashDue(size) == calculate_hash /\ LessEq(size, max_hash_size)

\* _compute_hash(file_path)   (lines 63-85): the digest, or the text
\* returned when the file cannot be opened or read.
ComputeHash(f) == IF f.readable THEN "digest" ELSE "error_calculating_hash"

\* The keys of file_info   (lines 40-51)
BaseFields == {"file_path", "file_name", "file_extension", "file_size_bytes",
               "file_size_human", "created_time", "modified_time",
               "accessed_time", "is_symlink", "scan_timestamp"}

NoRecord == [ret |-> "none", fields |-> {}, file_size_bytes |-> Zero,
             file_size_human |-> [hundredths |-> 0, unit |-> "B"],
             sha256_hash |-> "absent"]

\* extract(file_path)   (lines 27-61): the record returned, None when stat()
\* raised PermissionError or another OSError, and whether the file was
\* opened for reading.
Extract(f) ==
    IF f.stat # "ok"
    THEN [record |-> [NoRecord EXCEPT !.ret = "None"], opened |-> FALSE]
    ELSE [record |->
            [ret |-> "record",
             fields |-> BaseFields \cup
                          (IF HashDue(f.size) THEN {"sha256_hash"} ELSE {}),
             file_size_bytes |-> f.size,
             file_size_human |-> FormatSize(f.size),
             sha256_hash |-> IF HashDue(f.size) THEN ComputeHash(f) ELSE "absent"],
          opened |-> HashDue(f.size)]

\* max_hash_size: int = 100 * 1024 * 1024   (line 15)
DefaultMaxHashSize == Size(<<0, 0, 100>>)
MaxHashSizes == {Zero, Size(<<0, 0, 1>>), DefaultMaxHashSize}

\* The sizes of the files: in each unit none, one, a half or all but one of
\* the next unit, and the sizes next to the default max_hash_size.
Digits == {0, 1, 512, 1023}
Sizes ==
    {[i \in 1..NDigits |-> IF i < NDigits THEN low[i] ELSE top]
       : low \in [1..(NDigits - 1) -> Digits], top \in 0..MaxPB}
    \cup {Size(<<1023, 1023, 99>>), DefaultMaxHashSize, Size(<<1, 0, 100>>)}

NoFile == [stat |-> "ok", size |-> Zero, readable |-> FALSE]
Files ==
    [stat : {"ok"}, size : Sizes, readable : BOOLEAN]
    \cup [stat : {"PermissionError", "OSError"}, size : {Zero}, readable : {FALSE}]

ExtractFile ==
    /\ record.ret = "none"
    /\ \E f \in Files :
         /\ file' = f
         /\ record' = Extract(f).record
         /\ opened' = Extract(f).opened
    /\ UNCHANGED <<calculate_hash, max_hash_size, pubVars, scanVars, appVars>>

\* The caller has taken the record.
ExtractorResumes ==
    /\ record.ret # "none"
    /\ file' = NoFile
    /\ record' = NoRecord
    /\ opened' = FALSE
    /\ UNCHANGED <<calculate_hash, max_hash_size, pubVars, scanVars, appVars>>

InitFile ==
    /\ file = NoFile
    /\ record = NoRecord
    /\ opened = FALSE

\* FileInfoExtractor(calculate_hash=args.calculate_hash) without
\* --calculate-hash   (file_scanner.py:143, 181-183)
InitExtractorDefault ==
    /\ calculate_hash = FALSE
    /\ max_hash_size = DefaultMaxHashSize
    /\ InitFile

\* ----------------------------------------------- the client of the publisher
\* Between two calls nothing of the previous call is observed any more.
Idle == [op |-> "idle", ret |-> "None", msg |-> 0, pre |-> FALSE]

Called(op, m, r) ==
    /\ SetWorld(r.w)
    /\ last' = [op |-> op, ret |-> r.ret, msg |-> m, pre |-> IsConnected(World)]

\* The client has taken the result of its call.
ClientResumes ==
    /\ last # Idle
    /\ last' = Idle
    /\ trace' = <<>>
    /\ opens' = 0
    /\ UNCHANGED <<connection, channel, message_count, conn, chan, setup, queue,
                   pubConfig, scanVars, appVars, extVars>>

ClientConnect ==
    /\ last = Idle
    /\ \E r \in Connect(World) : Called("connect", 0, r)
    /\ UNCHANGED <<pubConfig, scanVars, appVars, extVars>>

ClientPublish ==
    /\ last = Idle
    /\ message_count < MaxMessages
    /\ LET m == message_count + 1    \* a new message each time
       IN \E r \in Publish(World, m) : Called("publish", m, r)
    /\ UNCHANGED <<pubConfig, scanVars, appVars, extVars>>

ClientDisconnect ==
    /\ last = Idle
    /\ \E r \in Disconnect(World) : Called("disconnect", 0, r)
    /\ UNCHANGED <<pubConfig, scanVars, appVars, extVars>>

\* The network or the broker drops an open connection between two calls.
ConnectionLost ==
    /\ last = Idle
    /\ \E c \in ConnIds :
         /\ conn[c] = "open"
         /\ SetWorld(LoseConnection(World, c))
    /\ UNCHANGED last
    /\ UNCHANGED <<pubConfig, scanVars, appVars, extVars>>

InitClient ==
    /\ connection = None
    /\ channel = None
    /\ message_count = 0
    /\ max_retries \in 0..MaxRetries
    /\ heartbeat_check_interval \in 1..MaxInterval
    /\ conn = [c \in ConnIds |-> "none"]
    /\ chan = [c \in ConnIds |-> "none"]
    /\ setup = [c \in ConnIds |-> <<>>]
    /\ queue \in {"absent", "inequivalent"}
    /\ opens = 0
    /\ trace = <<>>
    /\ last = Idle

\* A client of RabbitMQClient that calls its public methods in any order.
InitPublisher ==
    /\ InitClient
    /\ InitScanner
    /\ InitRun
    /\ InitExtractorDefault
    /\ progress_interval = 1

NextPublisher ==
    \/ ClientConnect
    \/ ClientPublish
    \/ ClientDisconnect
    \/ ClientResumes
    \/ ConnectionLost

SpecPublisher == InitPublisher /\ [][NextPublisher]_vars

\* A caller of DirectoryScanner.scan with a callback of its own.
InitScan ==
    /\ InitClient
    /\ max_retries = 0
    /\ heartbeat_check_interval = 1
    /\ queue = "absent"
    /\ InitScanner
    /\ InitRun
    /\ InitExtractorDefault

NextScanner ==
    \/ ScanCall /\ UNCHANGED <<appVars, extVars>>
    \/ WalkYield /\ UNCHANGED <<appVars, extVars>>
    \/ WalkError /\ UNCHANGED <<appVars, extVars>>
    \/ ProcessEntry /\ UNCHANGED <<appVars, extVars>>
    \/ PruneDirs /\ UNCHANGED <<appVars, extVars>>
    \/ ScanReturn /\ UNCHANGED <<appVars, extVars>>

SpecScanner == InitScan /\ [][NextScanner]_vars

\* -------------------------------------------------------- FileScannerApp
\* self.extractor.extract(file_path)   (file_scanner.py:83): a record, or
\* None when the file cannot be read (file_info_extractor.py:59-61).
ExtractResults == {"record", "None"}

\* Mutant: the record is published also when it is absent.
ProcessFilePublishesAlways(w, m) ==
    {[w |-> r.w, ret |-> IF r.ret \in {"True", "False"} THEN r.ret ELSE "Exception",
      extracted |-> e, published |-> r.ret]
       : r \in Publish(w, m), e \in ExtractResults}

\* _process_file(file_path)   (file_scanner.py:72-93) for the file that is
\* the m-th entry of the walk: what it returns or raises, what extract()
\* gave and what publish() did.  An error publish() raises leaves the
\* callback as raised; an interrupt can arrive before anything is published.
ProcessFile(w, m) ==
    {[w |-> w, ret |-> "False", extracted |-> "None", published |-> "none"],
     [w |-> w, ret |-> "KeyboardInterrupt", extracted |-> "none", published |-> "none"]}
    \cup
    {[w |-> r.w, ret |-> IF r.ret \in {"True", "False"} THEN r.ret ELSE "Exception",
      extracted |-> "record", published |-> r.ret]
       : r \in Publish(w, m)}

\* The broker confirmed message m during the call that left trace tr.
Confirmed(tr, m) ==
    \E i \in 1..Len(tr) :
       tr[i].op = "basic_publish" /\ tr[i].out = "ok" /\ tr[i].n = m

\* The messages of the basic_publish calls of trace tr, in their order.
Attempts(tr) ==
    LET calls == SelectSeq(tr, LAMBDA e : e.op = "basic_publish")
    IN [i \in 1..Len(calls) |-> calls[i].n]

\* What the run keeps of a callback that ended as x for the m-th entry.
Outcome(x, m) ==
    [w |-> [x.w EXCEPT !.trace = <<>>], ret |-> x.ret,
     extracted |-> x.extracted, published |-> x.published,
     attempts |-> Attempts(x.w.trace),
     confirmed |-> Confirmed(x.w.trace, m)]

\* What run() does with the way scan() ended (file_scanner.py:52-70): it
\* returns after a scan that returned or was interrupted, any other error
\* goes on to the caller.
RunResult(ended) ==
    IF ended \in {"None", "KeyboardInterrupt"} THEN "None" ELSE ended

\* The filters of a run (none, and one extension), the suffixes of its
\* entries (one that passes the filter, one that does not) and what a
\* directory holds: at most one file.
AppFilters == {<<>>, <<Txt>>}
AppSuffixes == {Txt, Jpg}
AppListings == {<<>>} \cup {<<x>> : x \in AppSuffixes}

\* Mutant: run() goes on after a connect() that returned False.
AfterConnectIgnored(ret) ==
    IF ret \in {"True", "False"}
    THEN [pc |-> "connected", ret |-> "running"]
    ELSE [pc |-> "exited", ret |-> ret]

\* if not self.rabbitmq.connect(): sys.exit(1)   (file_scanner.py:48-50);
\* an error connect() raises leaves run().
AfterConnect(ret) ==
    CASE ret = "True" -> [pc |-> "connected", ret |-> "running"]
      [] ret = "False" -> [pc |-> "exited", ret |-> "SystemExit"]
      [] OTHER -> [pc |-> "exited", ret |-> ret]

\* run(): self.rabbitmq.connect(), sys.exit(1) if it returned False
\* (file_scanner.py:48-50); an error connect() raises leaves run().
AppConnect ==
    /\ app_pc = "idle"
    /\ last = Idle
    /\ \E r \in Connect(World) :
         /\ Called("connect", 0, r)
         /\ app_connect' = r.ret
         /\ app_pc' = AfterConnect(r.ret).pc
         /\ app_ret' = AfterConnect(r.ret).ret
    /\ UNCHANGED <<pubConfig, scanVars, disconnects, scans, extracted, published,
                   attempts, publish_true, callback_failures, files_confirmed,
                   summary, extVars>>

\* run(): self.scanner.scan(...)   (file_scanner.py:54-58)
AppScan ==
    /\ app_pc = "connected"
    /\ last = Idle
    /\ ScanCall
    /\ file_extensions' \in AppFilters
    /\ app_pc' = "scanning"
    /\ scans' = scans + 1
    /\ UNCHANGED <<app_ret, app_connect, disconnects, extracted, published,
                   attempts, publish_true, callback_failures, files_confirmed,
                   summary, extVars>>

\* Between two entries nothing of the previous entry is observed any more.
Resumed ==
    /\ last = Idle
    /\ extracted = "none"
    /\ published = "none"
    /\ attempts = <<>>
    /\ callback_result = "none"
    /\ ~notified

AppWalkYield ==
    /\ app_pc = "scanning"
    /\ Resumed
    /\ WalkYield
    /\ filenames' \in AppListings
    /\ UNCHANGED <<appVars, extVars>>

AppWalkError ==
    /\ app_pc = "scanning"
    /\ Resumed
    /\ WalkError
    /\ UNCHANGED <<appVars, extVars>>

AppPruneDirs ==
    /\ app_pc = "scanning"
    /\ Resumed
    /\ PruneDirs
    /\ UNCHANGED <<appVars, extVars>>

AppScanReturn ==
    /\ app_pc = "scanning"
    /\ Resumed
    /\ ScanReturn
    /\ UNCHANGED <<appVars, extVars>>

\* _process_entry with file_callback = self._process_file
\* (file_scanner.py:57, directory_scanner.py:98-147).  Of the calls the
\* callback makes, the run keeps extracted, published, attempts and the
\* counts made of them.
AppProcessEntry ==
    /\ app_pc = "scanning"
    /\ Resumed
    /\ scan_pc = "walk"
    /\ dirpath # 0
    /\ filenames # <<>>
    /\ handed' = handed + 1
    /\ IF Filtered(Head(filenames), file_extensions)
       THEN /\ EntryFiltered
            /\ extracted' = "none"
            /\ published' = "none"
            /\ attempts' = <<>>
            /\ UNCHANGED <<pubVars, publish_true, callback_failures, files_confirmed>>
       ELSE \E r \in {Outcome(x, handed + 1) :
                        x \in ProcessFile([World EXCEPT !.observed = {"basic_publish"}],
                                          handed + 1)} :
              /\ CallbackDone(r.ret)
              /\ SetWorld(r.w)
              /\ UNCHANGED last
              /\ extracted' = r.extracted
              /\ published' = r.published
              /\ attempts' = r.attempts
              /\ publish_true' = publish_true + (IF r.published = "True" THEN 1 ELSE 0)
              /\ callback_failures' =
                    callback_failures +
                      (IF r.extracted = "None" \/ r.published \notin {"none", "True"}
                       THEN 1 ELSE 0)
              /\ files_confirmed' =
                    files_confirmed + (IF r.confirmed THEN 1 ELSE 0)
              /\ UNCHANGED pubConfig
    /\ UNCHANGED <<progress_interval, root_kind, file_extensions, yielded, stale,
                   pruned, app_pc, app_ret, app_connect, disconnects, scans,
                   summary, extVars>>

\* stats = self.scanner.get_statistics(); self.logger.info(...)
\* (file_scanner.py:61-65) is reached when scan() returned; the handler of
\* KeyboardInterrupt (lines 67-68) logs "Scan interrupted by user" only.
SummaryLogged(ended, st) == IF ended = "None" THEN <<st>> ELSE <<>>

\* run() after scan() has ended (file_scanner.py:60-70): the statistics are
\* logged if it returned, and disconnect() is called in the finally block.
AppFinish ==
    /\ app_pc = "scanning"
    /\ scan_pc = "idle"
    /\ Resumed
    /\ \E r \in Disconnect(World) : Called("disconnect", 0, r)
    /\ disconnects' = disconnects + 1
    /\ app_pc' = "exited"
    /\ app_ret' = RunResult(scan_ret)
    /\ summary' = SummaryLogged(scan_ret, Stats)
    /\ UNCHANGED <<pubConfig, scanVars, app_connect, scans, extracted, published,
                   attempts, publish_true, callback_failures, files_confirmed,
                   extVars>>

\* The walk goes on to its next step.
AppResumes ==
    /\ app_pc = "scanning"
    /\ ~Resumed
    /\ extracted' = "none"
    /\ published' = "none"
    /\ attempts' = <<>>
    /\ callback_result' = "none"
    /\ notified' = FALSE
    /\ UNCHANGED <<pubVars, progress_interval, files_processed, files_failed,
                   files_skipped, scan_pc, root_kind, file_extensions, pending,
                   dirpath, filenames, scan_ret, handed, invoked, yielded, stale,
                   pruned, app_pc, app_ret, app_connect, disconnects, scans,
                   publish_true, callback_failures, files_confirmed, summary,
                   extVars>>

\* One run() of FileScannerApp on a client just constructed (main,
\* file_scanner.py:173-205), with the least and the largest max_retries and
\* heartbeat_check_interval.  A connection that drops shows as the error of
\* the next call made on it.
InitApp ==
    /\ InitClient
    /\ max_retries \in {0, MaxRetries}
    /\ heartbeat_check_interval \in {1, MaxInterval}
    /\ InitScanner
    /\ progress_interval = 1
    /\ InitRun
    /\ InitExtractorDefault

NextApp ==
    \/ AppConnect
    \/ AppScan
    \/ AppWalkYield
    \/ AppWalkError
    \/ AppProcessEntry
    \/ AppPruneDirs
    \/ AppScanReturn
    \/ AppFinish
    \/ AppResumes
    \/ ClientResumes

SpecApp == InitApp /\ [][NextApp]_vars

\* A caller of FileInfoExtractor.extract.
InitExtractor ==
    /\ InitClient
    /\ max_retries = 0
    /\ heartbeat_check_interval = 1
    /\ queue = "absent"
    /\ InitScanner
    /\ progress_interval = 1
    /\ InitRun
    /\ calculate_hash \in BOOLEAN
    /\ max_hash_size \in MaxHashSizes
    /\ InitFile

NextExtractor ==
    \/ ExtractFile
    \/ ExtractorResumes

SpecExtractor == InitExtractor /\ [][NextExtractor]_vars


\* ================================================================ claims
\* Places of the trace of the last call.
TraceAt(op) == {i \in 1..Len(trace) : trace[i].op = op}
ConnectCalls == {i \in TraceAt("connect") : trace[i].out = "call"}
ConnectReturns == TraceAt("connect") \ ConnectCalls
Publishes == TraceAt("basic_publish")
Min(S) == CHOOSE x \in S : \A y \in S : x <= y

RECURSIVE SumOfAttempts(_)
SumOfAttempts(S) ==
    IF S = {} THEN 0
    ELSE LET i == Min(S) IN trace[i].n + SumOfAttempts(S \ {i})

\* ------------------------------------------------------------------- C1
\* C1: scan() on a root that is a directory starts with processed, failed
\* and skipped all zero, whatever the previous scan left, and from then on
\* until it has returned processed + failed + skipped is the number of
\* entries handed to _process_entry.
C1_CountersAccountForEveryEntry ==
    /\ (scan_pc = "walk" /\ handed = 0) =>
         (files_processed = 0 /\ files_failed = 0 /\ files_skipped = 0)
    /\ (root_kind = "dir" /\ scan_ret \in {"running", "None"}) =>
         files_processed + files_failed + files_skipped = handed

\* A second scan that returned, after a scan that left counters behind, with
\* a subdirectory pruned and at least two entries handled.
C1_Witness ==
    /\ scan_ret = "None"
    /\ stale
    /\ yielded >= 2
    /\ yielded < MaxDirs
    /\ handed >= 2

\* ------------------------------------------------------------------- C2
\* C2: handling an entry that passes the filter changes exactly one counter,
\* by one: processed when the callback returned true, failed when it returned
\* false, skipped when it raised PermissionError, failed when it raised any
\* other Exception; and the walk goes on with the next entry.
C2_OneCounterPerCallback ==
    [][(invoked' = invoked + 1
        /\ callback_result' \in {"True", "False", "PermissionError", "Exception"})
       => /\ files_processed' =
               files_processed + (IF callback_result' = "True" THEN 1 ELSE 0)
          /\ files_failed' =
               files_failed + (IF callback_result' \in {"False", "Exception"} THEN 1 ELSE 0)
          /\ files_skipped' =
               files_skipped + (IF callback_result' = "PermissionError" THEN 1 ELSE 0)
          /\ scan_pc' = "walk"
          /\ scan_ret' = "running"
          /\ filenames' = Tail(filenames)
          /\ dirpath' = dirpath
          /\ pending' = pending]_vars

\* A scan without filter that returned although callbacks raised
\* PermissionError and other errors and returned false.
C2_Witness ==
    /\ scan_ret = "None"
    /\ file_extensions = <<>>
    /\ files_processed >= 1
    /\ files_failed >= 2
    /\ files_skipped >= 1
    /\ callback_result = "Exception"

\* ------------------------------------------------------------------- C3
\* C3: scan() on a missing root ends with FileNotFoundError, on a root that
\* is no directory with NotADirectoryError; in both cases no directory is
\* enumerated, no entry handled and the callback never invoked.
C3_InvalidRootAborts ==
    /\ root_kind = "missing" =>
         (scan_pc = "idle" /\ scan_ret = "FileNotFoundError")
    /\ root_kind = "file" =>
         (scan_pc = "idle" /\ scan_ret = "NotADirectoryError")
    /\ root_kind # "dir" => (yielded = 0 /\ handed = 0 /\ invoked = 0)

\* scan() of a file, after a scan that handled entries.
C3_Witness ==
    /\ root_kind = "file"
    /\ scan_ret = "NotADirectoryError"
    /\ stale

\* ------------------------------------------------------------------- C4
\* C4: in a publish() whose first basic_publish raised a connection or
\* channel error, connect() is called exactly once; if it returned True the
\* same message is published exactly once more and publish() returns True
\* iff that retry went well; if the retry or the reconnect failed, publish()
\* returns False and does nothing more.
C4_OneReconnectOneRetry ==
    (/\ last.op = "publish"
     /\ Publishes # {}
     /\ trace[Min(Publishes)].out \in {"conn_err", "chan_err"})
    => LET first == Min(Publishes)
           calls == {i \in ConnectCalls : i > first}
           rets == {i \in ConnectReturns : i > first}
           later == {i \in Publishes : i > first}
       IN /\ Cardinality(calls) = 1
          /\ Cardinality(rets) = 1
          /\ IF trace[Min(rets)].out = "True"
             THEN /\ Cardinality(later) = 1
                  /\ trace[Min(later)].n = trace[first].n
                  /\ Min(later) = Len(trace)
                  /\ last.ret = (IF trace[Min(later)].out = "ok" THEN "True" ELSE "False")
             ELSE /\ later = {}
                  /\ Min(rets) = Len(trace)
                  /\ last.ret = "False"

\* ------------------------------------------------------------------- C5
\* C5: publish() called while is_connected() is false returns False at once:
\* no basic_publish, no liveness check, no connect().
C5_PublishFailsFastWhenDisconnected ==
    (last.op = "publish" /\ ~last.pre)
    => (last.ret = "False" /\ trace = <<>> /\ opens = 0)

\* ------------------------------------------------------------------- C6
\* C6: every connect() ends, after at most max_retries attempts: it returns
\* True at the first attempt that succeeds, goes on after every attempt that
\* raised a connection error, and returns False once max_retries attempts
\* have failed (at once when max_retries is 0).
C6_ConnectAttemptsBounded ==
    /\ Connect(World) # {}
    /\ \A i \in ConnectReturns :
         /\ trace[i].n <= max_retries
         /\ trace[i].out = "False" => trace[i].n = max_retries
         /\ trace[i].out # "False" => trace[i].n >= 1
    /\ Cardinality(ConnectReturns) = Cardinality(ConnectCalls)
    /\ opens = SumOfAttempts(ConnectReturns)
    /\ last.op = "connect" =>
         /\ last.ret \in {"True", "False", "AMQPChannelError"}
         /\ Len(trace) = 2
         /\ last.ret = "False" => opens = max_retries
         /\ last.ret = "True" => (opens >= 1 /\ IsConnected(World))

\* connect() that returned True at its second attempt.
C6_Witness ==
    /\ last.op = "connect"
    /\ last.ret = "True"
    /\ opens = 2

\* ------------------------------------------------------------------- C7
\* C7: whenever connect() returns False, is_connected() is false.
C7_FailedConnectIsDisconnected ==
    \A i \in ConnectReturns : trace[i].out = "False" => ~trace[i].live

\* ------------------------------------------------------------------- C8
\* C8: whenever connect() returns True, is_connected() is true and the
\* channel held is an open channel of the connection held, on which
\* queue_declare and then confirm_delivery were completed, the queue being
\* durable; connect() on a client whose queue is declared never fails on the
\* declaration.
C8_ConnectedChannelIsSetUp ==
    /\ \A i \in ConnectReturns : trace[i].out = "True" => trace[i].live
    /\ (last.op = "connect" /\ last.ret = "True") =>
         /\ IsConnected(World)
         /\ channel = connection
         /\ conn[connection] = "open"
         /\ chan[channel] = "open"
         /\ setup[channel] = <<"queue_declare", "confirm_delivery">>
         /\ queue = "durable"
    /\ queue = "durable" =>
         \A r \in Connect(World) : r.ret \in {"True", "False"}

\* connect() called again on a connected client, returning True.
C8_Witness ==
    /\ last.op = "connect"
    /\ last.ret = "True"
    /\ last.pre

\* ------------------------------------------------------------------- C9
\* C9: disconnect() returns normally from every state, also when close()
\* raises, and is_connected() is false afterwards.
C9_DisconnectNeverRaises ==
    /\ \A r \in Disconnect(World) : r.ret = "None" /\ ~IsConnected(r.w)
    /\ last.op = "disconnect" => (last.ret = "None" /\ ~IsConnected(World))

\* disconnect() of a connected client whose close() raised.
C9_Witness ==
    /\ last.op = "disconnect"
    /\ last.pre
    /\ \E i \in TraceAt("close") : trace[i].out = "error"

\* ------------------------------------------------------------------ C10
\* C10: at most one connection opened by the client is open at any time.
C10_AtMostOneOpenConnection ==
    Cardinality({c \in ConnIds : conn[c] = "open"}) <= 1

\* ------------------------------------------------------------------ C11
\* C11: when run() is left after a connect() that returned True,
\* disconnect() has been called exactly once and no connection is open.
C11_DisconnectOnEveryExit ==
    (app_pc = "exited" /\ app_connect = "True")
    => (disconnects = 1 /\ \A c \in ConnIds : conn[c] # "open")

\* ------------------------------------------------------------------ C12
\* C12: when the connect() of run() has returned False, run() is left with
\* SystemExit: scan() was not called, no entry was handled, the callback not
\* invoked, publish() not called, and no connection is open.
C12_FailedConnectAborts ==
    app_connect = "False"
    => /\ app_pc = "exited"
       /\ app_ret = "SystemExit"
       /\ scans = 0
       /\ scan_pc = "idle"
       /\ handed = 0
       /\ invoked = 0
       /\ yielded = 0
       /\ message_count = 0
       /\ files_confirmed = 0
       /\ \A c \in ConnIds : conn[c] # "open"

\* connect() returned False after attempts in which a connection was opened
\* and then lost.
C12_Witness ==
    /\ app_connect = "False"
    /\ opens = MaxRetries
    /\ connection # None
    /\ conn[connection] = "closed"

\* ------------------------------------------------------------------ C13
\* C13: for an entry that passes the filter, publish() is called iff
\* extract() gave a record; without a record the callback returns False and
\* the publisher is not touched; with one the callback ends as publish()
\* ended.  processed is the number of publish() calls that returned True,
\* failed the number of absent records and publish() calls that failed.
C13_CallbackIsExtractThenPublish ==
    /\ [](files_processed = publish_true /\ files_failed = callback_failures)
    /\ [][(handed' = handed + 1 /\ invoked' = invoked + 1
           /\ callback_result' # "KeyboardInterrupt")
          => /\ (published' # "none") <=> (extracted' = "record")
             /\ extracted' \in {"record", "None"}
             /\ extracted' = "None" =>
                  /\ callback_result' = "False"
                  /\ attempts' = <<>>
                  /\ UNCHANGED pubVars
             /\ published' \in {"True", "False"} => callback_result' = published'
             /\ published' \notin {"none", "True", "False"} =>
                  callback_result' = "Exception"
             /\ files_processed' =
                  files_processed + (IF published' = "True" THEN 1 ELSE 0)
             /\ files_failed' =
                  files_failed + (IF published' = "True" THEN 0 ELSE 1)]_vars

\* The third entry of a walk, its publish() failed, after one entry that was
\* published and one whose record was absent.
C13_Witness ==
    /\ published = "False"
    /\ handed = 3
    /\ files_processed = 1
    /\ files_failed = 2
    /\ message_count = 2

\* ------------------------------------------------------------------ C14
\* C14: every basic_publish made for an entry, first attempt and retry,
\* carries the message of that entry and is made while that entry is the
\* last one handed over by the walk; entries are handed over one by one, so
\* no message of an entry is sent after a message of a later entry.
C14_PublishOrderIsWalkOrder ==
    /\ [](/\ Len(attempts) <= 2
          /\ \A i \in 1..Len(attempts) : attempts[i] = handed)
    /\ [][attempts' # attempts
          => \/ attempts' = <<>>
             \/ handed' = handed + 1]_vars
    /\ [][handed' # handed => (handed' = handed + 1 \/ handed' = 0)]_vars

\* The second file published is sent twice: a retry after a reconnect.
C14_Witness ==
    /\ attempts = <<handed, handed>>
    /\ files_processed >= 1
    /\ handed >= 2

\* ------------------------------------------------------------------ C15
\* C15: processed never exceeds the number of files with a message the
\* broker has confirmed.
C15_ProcessedFilesAreConfirmed ==
    files_processed <= files_confirmed

\* Two files processed, the second one after a retry.
C15_Witness ==
    /\ files_processed = 2
    /\ published = "True"
    /\ Len(attempts) = 2

\* ------------------------------------------------------------------ C16
\* Directory d is p or lies below p.
IsBelow(d, p) == \E k \in 0..MaxDirs : d \div (2 ^ k) = p

StatsAre(p, f, s) ==
    files_processed = p /\ files_failed = f /\ files_skipped = s

\* C16: once the probe of a subdirectory has failed, neither it nor anything
\* below it is enumerated or waits to be enumerated, so no entry below it is
\* handled; the pruning step changes no counter and handles no entry, and
\* it queues every subdirectory whose probe went well, in front of the
\* directories already waiting.  In a scan with filter [".txt"] of a root
\* holding a.txt and b.jpg whose subdirectories are all unreadable, with a
\* callback that returns true, the statistics go (1,0,0), (1,0,1) and the
\* scan returns with processed=1, failed=0, skipped=1.
C16_PrunedSubtreeNeverVisited ==
    /\ [](\A p \in pruned :
            /\ ~IsBelow(dirpath, p)
            /\ \A i \in 1..Len(pending) : ~IsBelow(pending[i], p))
    /\ [][(scan_pc = "walk" /\ dirpath # 0 /\ filenames = <<>> /\ dirpath' = 0)
          => /\ files_processed' = files_processed
             /\ files_failed' = files_failed
             /\ files_skipped' = files_skipped
             /\ handed' = handed
             /\ invoked' = invoked
             /\ scan_pc' = "walk"
             /\ pending' = SelectSeq(Children(dirpath), LAMBDA d : d \notin pruned')
                              \o pending]_vars
    /\ [][(/\ dirpath = Root /\ handed = 0 /\ filenames = <<Txt, Jpg>>
           /\ file_extensions = <<Txt>>
           /\ callback_result' = "True")
          => (/\ files_processed' = 1 /\ files_failed' = 0 /\ files_skipped' = 0
              /\ dirpath' = Root /\ filenames' = <<Jpg>>)]_vars
    /\ [][(/\ dirpath = Root /\ handed = 1 /\ filenames = <<Jpg>>
           /\ file_extensions = <<Txt>>
           /\ StatsAre(1, 0, 0))
          => (/\ files_processed' = 1 /\ files_failed' = 0 /\ files_skipped' = 1
              /\ invoked' = invoked
              /\ dirpath' = Root /\ filenames' = <<>>)]_vars
    /\ [][(/\ dirpath = Root /\ handed = 2 /\ filenames = <<>>
           /\ StatsAre(1, 0, 1)
           /\ \A i \in 1..Len(Children(Root)) : Children(Root)[i] \in pruned')
          => (/\ files_processed' = 1 /\ files_failed' = 0 /\ files_skipped' = 1
              /\ pending' = <<>>)]_vars
    /\ [][(/\ scan_pc = "walk" /\ dirpath = 0 /\ pending = <<>> /\ yielded = 1
           /\ StatsAre(1, 0, 1))
          => (/\ files_processed' = 1 /\ files_failed' = 0 /\ files_skipped' = 1
              /\ scan_ret' = "None")]_vars

\* A scan with filter [".txt"] that returned with processed=1, skipped=1,
\* failed=0 after one subdirectory of the root was pruned and the other one
\* was enumerated.
C16_Witness ==
    /\ scan_ret = "None"
    /\ file_extensions = <<Txt>>
    /\ pruned = {2 * Root}
    /\ yielded = 2
    /\ StatsAre(1, 0, 1)

\* ------------------------------------------------------------------ C17
\* C17: an entry handed to _process_entry passes the filter (the callback
\* is invoked) iff there is no filter or its lower-cased suffix equals some
\* filter item, lower-cased and with a leading '.' added when missing.
C17_FilterIgnoresCaseAndDot ==
    [][handed' = handed + 1
       => ((invoked' = invoked + 1) <=>
             \/ file_extensions = <<>>
             \/ \E i \in 1..Len(file_extensions) :
                  Lower(Head(filenames)) =
                    Lower(NormalizeExtension(file_extensions[i])))]_vars

\* ------------------------------------------------------------------ C18
\* C18: handling an entry logs a progress line iff it has just incremented
\* processed and processed is now a multiple of progress_interval.
C18_ProgressOnlyOnIncrementToMultiple ==
    [][handed' = handed + 1
       => (notified' <=>
             /\ files_processed' = files_processed + 1
             /\ files_processed' % progress_interval = 0)]_vars

\* ------------------------------------------------------------------ C19
\* C19: a basic_publish that the broker reports as unroutable is the last
\* thing its publish() does (no connect(), no further basic_publish) and
\* publish() returns False; when it is the first basic_publish of a call in
\* which no connect() was made, the connection and the channel the client
\* holds, and their state, are the same after the call as before it.
C19_UnroutableFailsWithoutReconnect ==
    /\ [](\A i \in Publishes :
            trace[i].out = "unroutable" =>
              (i = Len(trace) /\ last.op = "publish" /\ last.ret = "False"))
    /\ [][(/\ last'.op = "publish"
           /\ Len(trace') >= 1
           /\ trace'[Len(trace')].out = "unroutable"
           /\ \A i \in 1..Len(trace') : trace'[i].op # "connect")
          => (/\ connection' = connection
              /\ channel' = channel
              /\ conn' = conn
              /\ chan' = chan
              /\ setup' = setup)]_vars

\* publish() on a connected client whose only basic_publish was reported
\* unroutable.
C19_Witness ==
    /\ last.op = "publish"
    /\ last.pre
    /\ last.ret = "False"
    /\ Cardinality(Publishes) = 1
    /\ ConnectCalls = {}
    /\ trace[Len(trace)].out = "unroutable"

\* ------------------------------------------------------------------ C20
\* C20: publish() ends by returning True or False, never by raising.
C20_PublishNeverRaises ==
    last.op = "publish" => last.ret \in {"True", "False"}

\* ------------------------------------------------------------------ C21
\* C21: when run() is left after an interrupt that arrived during the walk,
\* it has returned normally, has logged the statistics processed, failed and
\* skipped as they were when the interrupt arrived, has called disconnect()
\* and no connection is open.
C21_InterruptLogsStatisticsAndCloses ==
    (app_pc = "exited" /\ scan_ret = "KeyboardInterrupt")
    => /\ app_ret = "None"
       /\ summary = <<Stats>>
       /\ disconnects = 1
       /\ \A c \in ConnIds : conn[c] # "open"

\* ------------------------------------------------------------------ C22
\* The events of a trace that precede its first basic_publish.
BeforePublish(tr) ==
    {i \in 1..Len(tr) : \A j \in 1..i : tr[j].op # "basic_publish"}

\* C22: publish() adds one to the message counter iff the client holds a
\* channel (the test of line 121), and nothing else changes the counter.  A
\* liveness check is made in exactly the calls in which the counter, once
\* incremented, is a multiple of heartbeat_check_interval, and it is made
\* before the first basic_publish: process_data_events on a connection that
\* is not closed, connect() at once on one that is closed or absent, and
\* connect() right after a process_data_events that raised.
C22_HealthCheckEveryInterval ==
    /\ [][message_count' # message_count => last'.op = "publish"]_vars
    /\ [][last'.op = "publish"
          => LET held == channel # None
                 due == held /\ message_count' % heartbeat_check_interval = 0
                 closed == connection = None \/ conn[connection] = "closed"
                 before == BeforePublish(trace')
             IN /\ message_count' = message_count + (IF held THEN 1 ELSE 0)
                /\ (before # {}) <=> due
                /\ \A i \in 1..Len(trace') :
                      trace'[i].op = "process_data_events" => i = 1
                /\ (due /\ ~closed) =>
                      /\ trace'[1].op = "process_data_events"
                      /\ trace'[1].out = "ok" => before = {1}
                      /\ trace'[1].out # "ok" =>
                           (2 \in before /\ trace'[2].op = "connect"
                            /\ trace'[2].out = "call")
                /\ (due /\ closed) =>
                      (trace'[1].op = "connect" /\ trace'[1].out = "call")]_vars

\* The second publish() of a client with interval 2, on a connection that
\* was lost after the first: the check reconnects and the message is
\* published on the new connection.
C22_Witness ==
    /\ last.op = "publish"
    /\ last.ret = "True"
    /\ ~last.pre
    /\ heartbeat_check_interval = 2
    /\ message_count = 2
    /\ Len(trace) = 3
    /\ trace[1].op = "connect"
    /\ trace[2].out = "True"
    /\ trace[3].op = "basic_publish"

\* ------------------------------------------------------------------ C23
\* Size a is greater than size b: in the highest digit in which they
\* differ, a has the greater one.
Greater(a, b) ==
    \E i \in 1..NDigits :
       a[i] > b[i] /\ \A j \in (i + 1)..NDigits : a[j] = b[j]

AllUnits == Units \o <<"PB">>

\* The highest digit of a size that is not zero, the lowest for size 0.
TopDigit(size) ==
    LET used == {i \in 1..NDigits : size[i] # 0} \cup {1}
    IN CHOOSE i \in used : \A j \in used : j <= i

\* C24: a size in [1024^k, 1024^(k+1)), k from 0 to 4, and a size below 1024
\* for k = 0, is rendered in the k-th of B, KB, MB, GB, TB, a size of 1024^5
\* or more in PB; a size of exactly 1024^k is rendered as 1.00; 0 is
\* "0.00 B", 1536 is "1.50 KB" and 1048576 is "1.00 MB".
C24_UnitByPowersOf1024 ==
    record.ret = "record"
    => LET size == record.file_size_bytes
           human == record.file_size_human
           k == TopDigit(size)
       IN /\ size = file.size
          /\ human.unit = AllUnits[k]
          /\ (size[k] = 1 /\ \A j \in 1..NDigits : j # k => size[j] = 0) =>
                human.hundredths = 100
          /\ size = Zero => human = [hundredths |-> 0, unit |-> "B"]
          /\ size = Size(<<512, 1>>) => human = [hundredths |-> 150, unit |-> "KB"]
          /\ size = Size(<<0, 0, 1>>) => human = [hundredths |-> 100, unit |-> "MB"]

\* A file of one byte less than 1024^5 is rendered in TB, after five tests
\* and four divisions.
C24_Witness ==
    /\ record.ret = "record"
    /\ file.size = Size(<<1023, 1023, 1023, 1023, 1023>>)
    /\ record.file_size_human = [hundredths |-> 102400, unit |-> "TB"]

\* ------------------------------------------------------------------ C25
\* C25: the callback is invoked for an entry iff there is no filter (None
\* or an empty list) or the lower-cased suffix of the entry is one of the
\* filter items with a leading '.' added when missing.  An entry the filter
\* rejects adds one to skipped and leaves processed and failed as they are;
\* nothing is extracted, publish() is not called, the publisher and its
\* connections are untouched, and the walk goes on.
C25_RejectedEntryOnlyCountsSkipped ==
    [][handed' = handed + 1
       => LET passes ==
                 \/ Len(file_extensions) = 0
                 \/ \E i \in 1..Len(file_extensions) :
                      Lower(Head(filenames)) = NormalizeExtension(file_extensions[i])
          IN /\ passes => invoked' = invoked + 1
             /\ ~passes =>
                  /\ invoked' = invoked
                  /\ callback_result' = "none"
                  /\ files_skipped' = files_skipped + 1
                  /\ files_processed' = files_processed
                  /\ files_failed' = files_failed
                  /\ extracted' = "none"
                  /\ published' = "none"
                  /\ attempts' = <<>>
                  /\ files_confirmed' = files_confirmed
                  /\ UNCHANGED pubVars
                  /\ scan_pc' = "walk"
                  /\ filenames' = Tail(filenames)]_vars

\* A .jpg entry rejected by the filter [".txt"], after a .txt entry that was
\* published.
C25_Witness ==
    /\ app_pc = "scanning"
    /\ file_extensions = <<Txt>>
    /\ handed = 2
    /\ invoked = 1
    /\ StatsAre(1, 0, 1)
    /\ message_count = 1
    /\ callback_result = "none"
    /\ dirpath # 0

\* ------------------------------------------------------------------ C26
\* C26: an unexpected error of the enumeration ends scan() with the walk
\* error (an Exception raised to the caller): the step that raises it
\* handles no entry and changes no counter, and no entry is handled after it
\* until scan() is called again.  scan() ends with that error only at the
\* enumeration, never in a step that invoked the callback: after a callback
\* that raised PermissionError or another Exception the walk goes on.
C26_WalkErrorAbortsScan ==
    /\ [](scan_ret = "Exception" =>
            (scan_pc = "idle" /\ pending = <<>> /\ root_kind = "dir"))
    /\ [][(scan_ret # "Exception" /\ scan_ret' = "Exception")
          => /\ scan_pc = "walk"
             /\ dirpath = 0
             /\ handed' = handed
             /\ invoked' = invoked
             /\ files_processed' = files_processed
             /\ files_failed' = files_failed
             /\ files_skipped' = files_skipped]_vars
    /\ [][scan_ret = "Exception"
          => (handed' # handed + 1 /\ invoked' # invoked + 1)]_vars
    /\ [][invoked' = invoked + 1
          => /\ scan_ret' # "Exception"
             /\ callback_result' \in {"PermissionError", "Exception"} =>
                  (scan_pc' = "walk" /\ scan_ret' = "running")]_vars

\* The enumeration failed at the second directory, after a callback had
\* raised an error and the walk had gone on.
C26_Witness ==
    /\ scan_ret = "Exception"
    /\ yielded = 1
    /\ handed = 2
    /\ files_failed >= 1
    /\ callback_result = "Exception"

\* ------------------------------------------------------------------ C27
\* The setup calls connect() makes on a new channel, in their order.
FullSetup == <<"queue_declare", "confirm_delivery">>

\* C27: the channel the client holds is always one on which queue_declare
\* and confirm_delivery were both completed, and the first basic_publish of
\* a publish() that made no reconnect before it is made on such a channel.
C27_PublishOnlyOnSetUpChannel ==
    /\ [](channel # None => setup[channel] = FullSetup)
    /\ [][(/\ last'.op = "publish"
           /\ trace' # <<>>
           /\ trace'[1].op = "basic_publish")
          => setup[channel] = FullSetup]_vars

\* ------------------------------------------------------------------ C28
\* C28: a scan() that ends in the validation of its root, with
\* FileNotFoundError or NotADirectoryError, leaves processed, failed and
\* skipped as they were, so get_statistics() returns after it what it
\* returned before; a scan() call changes the counters only when its root
\* is a directory, and then it sets them to zero.
C28_FailedValidationKeepsStatistics ==
    /\ [][root_kind' # "dir"
          => /\ Stats' = Stats
             /\ scan_pc' = "idle"
             /\ scan_ret' \in {"FileNotFoundError", "NotADirectoryError"}]_vars
    /\ [][(scan_pc = "idle" /\ Stats' # Stats)
          => /\ root_kind' = "dir"
             /\ scan_pc' = "walk"
             /\ Stats' = [processed |-> 0, failed |-> 0, skipped |-> 0]]_vars

\* scan() of a missing root after a scan that processed, failed and skipped
\* entries: the counters of that scan are still there.
C28_Witness ==
    /\ root_kind = "missing"
    /\ scan_ret = "FileNotFoundError"
    /\ stale
    /\ files_processed >= 1
    /\ files_failed >= 1
    /\ files_skipped >= 1

=============================================================================
